---------------------------- MODULE Spec2Model ----------------------------
(***************************************************************************)
(* A model of SceneManager (3D Space source/Source/SceneManager.cpp/.h):   *)
(* the texture registry, the material table, the transform/uniform bridge  *)
(* and the fixed scene script of RenderScene.                              *)
(*                                                                         *)
(* Numbers.  The C++ floats are kept as fixed-point integers in units of   *)
(* 1/1000 (Milli): 1.5f is 1500, -4.95f is -4950.  Angles are whole        *)
(* degrees.  glm::radians followed by cos/sin is a table lookup; the       *)
(* table is exact at the quarter turns 0, 90, 180, 270 and rounded to      *)
(* 1/1000 elsewhere.  The light parameters, which are only passed through, *)
(* are kept in units of 1/10000 so that 0.0075f is a whole number.         *)
(*                                                                         *)
(* Collaborators.  The shader manager and the mesh library are not part    *)
(* of the sources; they are modelled as recorders: the shader keeps the    *)
(* last value of every uniform and the list of setter calls made during    *)
(* the current top-level call, the mesh library keeps the list of draw     *)
(* calls together with the uniforms in effect when each was issued.        *)
(***************************************************************************)
EXTENDS Integers, Sequences, FiniteSets, TLC

VARIABLES
    m_pShaderManager,   \* SceneManager.h:50  NULL or the shader collaborator
    m_loadedTextures,   \* SceneManager.h:52
    m_textureIDs,       \* SceneManager.h:53  array of TEXTURE_INFO
    m_objectMaterials,  \* SceneManager.h:54  vector of OBJECT_MATERIAL
    m_basicMeshes,      \* SceneManager.h:51  the mesh collaborator
    shader,             \* the state of the shader collaborator
    imageFiles,         \* the image files on disk, what stbi_load finds
    gl,                 \* the OpenGL texture state
    fault,              \* "none", or how undefined behaviour ended the run
    pc,                 \* position inside RenderScene, 0 when not rendering
    leaf,               \* the loop variable i of RenderScene's leaf loop
    call,               \* the last top-level call and what it returned
    loads               \* how often textures and materials were loaded

vars == <<m_pShaderManager, m_loadedTextures, m_textureIDs, m_objectMaterials,
          m_basicMeshes, shader, imageFiles, gl, fault, pc, leaf, call, loads>>

-----------------------------------------------------------------------------
(* Program constants and model bounds *)

TexCapacity == 16

leafCount == 10

MaxTextureLoads == 3

MaxMaterialLoads == 3

MaxDirectCalls == 3

NULL == "NULL"

SHADER == "ShaderManager"

\* one, in the fixed-point unit of the model's floats
Milli == 10 * 10 * 10

\* the names given to the shader for the uniforms (anonymous namespace)
g_ModelName == "model"

g_ColorValueName == "objectColor"

g_TextureValueName == "objectTexture"

g_UseTextureName == "bUseTexture"

-----------------------------------------------------------------------------
(* glm: vectors, matrices, rotate / scale / translate *)

\* round(1000 * cos(k degrees)) for k = 0..90, entry k+1
CosTable ==
  << 1000, 1000, 999, 999, 998, 996, 995, 993, 990, 988,
     985, 982, 978, 974, 970, 966, 961, 956, 951, 946,
     940, 934, 927, 921, 914, 906, 899, 891, 883, 875,
     866, 857, 848, 839, 829, 819, 809, 799, 788, 777,
     766, 755, 743, 731, 719, 707, 695, 682, 669, 656,
     643, 629, 616, 602, 588, 574, 559, 545, 530, 515,
     500, 485, 469, 454, 438, 423, 407, 391, 375, 358,
     342, 326, 309, 292, 276, 259, 242, 225, 208, 191,
     174, 156, 139, 122, 105, 87, 70, 52, 35, 17, 0 >>

\* cos(glm::radians(deg)) in 1/1000
CosDeg(deg) ==
  LET d == deg % 360
  IN  IF d <= 90 THEN CosTable[d + 1]
      ELSE IF d <= 180 THEN 0 - CosTable[(180 - d) + 1]
      ELSE IF d <= 270 THEN 0 - CosTable[(d - 180) + 1]
      ELSE CosTable[(360 - d) + 1]

\* sin(glm::radians(deg)) in 1/1000
SinDeg(deg) == CosDeg(deg - 90)

\* a product of two fixed-point numbers
FMul(a, b) == (a * b) \div Milli

Identity4 ==
  << <<Milli, 0, 0, 0>>, <<0, Milli, 0, 0>>, <<0, 0, Milli, 0>>, <<0, 0, 0, Milli>> >>

Zero4 ==
  << <<0, 0, 0, 0>>, <<0, 0, 0, 0>>, <<0, 0, 0, 0>>, <<0, 0, 0, 0>> >>

\* entry (r, c) of the matrix product a * b
Mat4Entry(a, b, r, c) ==
  FMul(a[r][1], b[1][c]) + FMul(a[r][2], b[2][c])
    + FMul(a[r][3], b[3][c]) + FMul(a[r][4], b[4][c])

\* row r of the matrix product a * b
Mat4Row(a, b, r) ==
  <<Mat4Entry(a, b, r, 1), Mat4Entry(a, b, r, 2), Mat4Entry(a, b, r, 3),
    Mat4Entry(a, b, r, 4)>>

\* glm::mat4 operator*, the matrices written by rows
Mat4Mul(a, b) ==
  <<Mat4Row(a, b, 1), Mat4Row(a, b, 2), Mat4Row(a, b, 3), Mat4Row(a, b, 4)>>

\* glm::scale(v)
GlmScale(v) ==
  << <<v[1], 0, 0, 0>>, <<0, v[2], 0, 0>>, <<0, 0, v[3], 0>>, <<0, 0, 0, Milli>> >>

\* glm::translate(v)
GlmTranslate(v) ==
  << <<Milli, 0, 0, v[1]>>, <<0, Milli, 0, v[2]>>, <<0, 0, Milli, v[3]>>,
     <<0, 0, 0, Milli>> >>

\* glm::rotate(glm::radians(deg), vec3(1, 0, 0))
GlmRotateX(deg) ==
  LET c == CosDeg(deg)
      s == SinDeg(deg)
  IN  << <<Milli, 0, 0, 0>>, <<0, c, 0 - s, 0>>, <<0, s, c, 0>>, <<0, 0, 0, Milli>> >>

\* glm::rotate(glm::radians(deg), vec3(0, 1, 0))
GlmRotateY(deg) ==
  LET c == CosDeg(deg)
      s == SinDeg(deg)
  IN  << <<c, 0, s, 0>>, <<0, Milli, 0, 0>>, <<0 - s, 0, c, 0>>, <<0, 0, 0, Milli>> >>

\* glm::rotate(glm::radians(deg), vec3(0, 0, 1))
GlmRotateZ(deg) ==
  LET c == CosDeg(deg)
      s == SinDeg(deg)
  IN  << <<c, 0 - s, 0, 0>>, <<s, c, 0, 0>>, <<0, 0, Milli, 0>>, <<0, 0, 0, Milli>> >>

-----------------------------------------------------------------------------
(* The scene's data *)

\* LoadSceneTextures: the (filename, tag) pairs in the order they are loaded
SceneTextures ==
  << <<"textures/wood.jpg", "wood">>,
     <<"textures/wall.jpg", "wall">>,
     <<"textures/pot.jpg", "pot">>,
     <<"textures/leaf.jpg", "leaf">>,
     <<"textures/lamp.jpg", "lamp">>,
     <<"textures/marble.jpg", "marble">>,
     <<"textures/granite.jpg", "granite">>,
     <<"textures/gold.jpg", "gold">> >>

ImageFiles == {SceneTextures[k][1] : k \in 1..Len(SceneTextures)}

\* what stbi_load makes of a file: 0 is a NULL image (missing or undecodable),
\* any other number is the colorChannels of the decoded image
ImageKinds == {0, 1, 3, 4}

\* LoadSceneMaterials: the presets in the order they are pushed
SceneMaterials ==
  << [tag |-> "marble", ambientColor |-> <<200, 200, 200>>, ambientStrength |-> 400,
      diffuseColor |-> <<900, 900, 900>>, specularColor |-> <<300, 300, 300>>,
      shininess |-> 16000],
     [tag |-> "gold", ambientColor |-> <<250, 200, 70>>, ambientStrength |-> 300,
      diffuseColor |-> <<800, 650, 250>>, specularColor |-> <<650, 550, 350>>,
      shininess |-> 51200],
     [tag |-> "granite", ambientColor |-> <<200, 200, 200>>, ambientStrength |-> 350,
      diffuseColor |-> <<600, 600, 600>>, specularColor |-> <<200, 200, 200>>,
      shininess |-> 8000],
     [tag |-> "wall", ambientColor |-> <<1000, 1000, 1000>>, ambientStrength |-> 500,
      diffuseColor |-> <<1000, 1000, 1000>>, specularColor |-> <<100, 100, 100>>,
      shininess |-> 1000],
     [tag |-> "lamp", ambientColor |-> <<1000, 1000, 1000>>, ambientStrength |-> 500,
      diffuseColor |-> <<1000, 1000, 1000>>, specularColor |-> <<200, 200, 200>>,
      shininess |-> 2000] >>

\* a default-constructed TEXTURE_INFO; its ID is never read before it is written
NoTexture == [tag |-> "", ID |-> 0]

\* the nine meshes PrepareScene loads
AllMeshes ==
  {"plane", "box", "cone", "prism", "pyramid3", "sphere", "torus",
   "taperedCylinder", "cylinder"}

\* the two contents the model gives an uninitialised OBJECT_MATERIAL
Indeterminate ==
  {[ambientColor |-> <<0, 0, 0>>, ambientStrength |-> 0,
    diffuseColor |-> <<0, 0, 0>>, specularColor |-> <<0, 0, 0>>,
    shininess |-> 0],
   [ambientColor |-> <<-1, 7, 7>>, ambientStrength |-> 7,
    diffuseColor |-> <<7, -1, 7>>, specularColor |-> <<7, 7, -1>>,
    shininess |-> -1]}

\* The outcomes of undefined behaviour, chosen anew at every call that makes
\* up to k CreateGLTexture calls:
\*   oob    a write past m_textureIDs[15]: the process dies ("segv") or the
\*          write lands in the members that follow the array ("spill")
\*   null   a call through a null m_pShaderManager: the process dies or the
\*          setter runs all the same ("run")
\*   uninit the indeterminate content of an uninitialised OBJECT_MATERIAL
\* Where the state rules a kind of undefined behaviour out, its outcome is
\* not varied.
UBOutcomes(k) ==
  [oob : IF m_loadedTextures + k > TexCapacity THEN {"segv", "spill"} ELSE {"segv"},
   null : IF m_pShaderManager = NULL THEN {"segv", "run"} ELSE {"segv"},
   uninit : Indeterminate]

-----------------------------------------------------------------------------
(* The texture registry *)

\* stbi_load(filename, ...): the colorChannels of the image, 0 for NULL
stbi_load(filename) == imageFiles[filename]

\* The registry and the GL state as CreateGLTexture sees and leaves them:
\* [n, ids, gl, fault, ret], ret being the value of the last call.
Registry ==
  [n |-> m_loadedTextures, ids |-> m_textureIDs, gl |-> gl, fault |-> fault,
   ret |-> FALSE]

\* glGenTextures(1, &id) followed by glBindTexture(GL_TEXTURE_2D, id)
GenAndBind(g) ==
  [g EXCEPT !.nextName = @ + 1, !.bound[g.active] = g.nextName]

\* glBindTexture(GL_TEXTURE_2D, 0)
Unbind(g) == [g EXCEPT !.bound[g.active] = 0]

\* CreateGLTexture registering every decoded image, whatever its channels
CreateGLTexture_RegisterAnyImage(r, filename, tag, ub) ==
  IF r.fault # "none" \/ r.n >= TexCapacity \/ stbi_load(filename) = 0
  THEN [r EXCEPT !.ret = FALSE]
  ELSE [r EXCEPT !.gl = Unbind(GenAndBind(r.gl)),
                 !.ids[r.n] = [tag |-> tag, ID |-> r.gl.nextName],
                 !.n = r.n + 1,
                 !.ret = (stbi_load(filename) \in {3, 4})]

\* CreateGLTexture(filename, tag) on registry r; once the run has faulted
\* nothing more is executed
CreateGLTexture(r, filename, tag, ub) ==
  IF r.fault # "none" THEN r
  ELSE
    LET colorChannels == stbi_load(filename)
        textureID == r.gl.nextName
    IN  IF colorChannels # 0
        THEN IF colorChannels = 3 \/ colorChannels = 4
             THEN IF r.n < TexCapacity
                  THEN [r EXCEPT !.gl = Unbind(GenAndBind(r.gl)),
                                 !.ids[r.n] = [tag |-> tag, ID |-> textureID],
                                 !.n = r.n + 1,
                                 !.ret = TRUE]
                  ELSE \* m_textureIDs[16]: out of bounds
                       IF ub.oob = "segv"
                       THEN [r EXCEPT !.gl = Unbind(GenAndBind(r.gl)),
                                      !.fault = "segv"]
                       ELSE [r EXCEPT !.gl = Unbind(GenAndBind(r.gl)),
                                      !.n = r.n + 1,
                                      !.fault = "oob",
                                      !.ret = TRUE]
             ELSE [r EXCEPT !.gl = GenAndBind(r.gl), !.ret = FALSE]
        ELSE [r EXCEPT !.ret = FALSE]

\* BindGLTextures taking the texture unit from the handle (ID - 1) instead of
\* the index of the entry
BindGLTextures_UnitFromHandle(r) ==
  IF r.fault # "none" THEN r
  ELSE [r EXCEPT !.gl.bound =
          [u \in DOMAIN r.gl.bound |->
             IF \E i \in 0..(r.n - 1) : r.ids[i].ID = u + 1
             THEN u + 1 ELSE r.gl.bound[u]]]

\* BindGLTextures on registry r
RECURSIVE BindFrom(_, _)
BindFrom(r, i) ==
  IF i < r.n
  THEN BindFrom([r EXCEPT !.gl.active = i, !.gl.bound[i] = r.ids[i].ID], i + 1)
  ELSE r

BindGLTextures(r) == IF r.fault # "none" THEN r ELSE BindFrom(r, 0)

\* the eight CreateGLTexture calls of LoadSceneTextures, from call k on
RECURSIVE LoadFrom(_, _, _)
LoadFrom(r, k, ub) ==
  IF k > Len(SceneTextures) THEN r
  ELSE LoadFrom(CreateGLTexture(r, SceneTextures[k][1], SceneTextures[k][2], ub),
                k + 1, ub)

\* LoadSceneTextures on registry r
LoadSceneTextures(r, ub) == BindGLTextures(LoadFrom(r, 1, ub))

\* FindTextureSlot(tag): the while loop from index on
RECURSIVE SlotFrom(_, _)
SlotFrom(tag, index) ==
  IF index < m_loadedTextures
  THEN IF m_textureIDs[index].tag = tag THEN index ELSE SlotFrom(tag, index + 1)
  ELSE -1

\* FindTextureSlot keeping on after a match: the last index with the tag
FindTextureSlot_LastMatch(tag) ==
  LET hits == {i \in 0..(m_loadedTextures - 1) : m_textureIDs[i].tag = tag}
  IN  IF hits = {} THEN -1 ELSE CHOOSE i \in hits : \A j \in hits : j <= i

\* FindTextureSlot with textureSlot initialised to 0
FindTextureSlot_DefaultZero(tag) ==
  IF SlotFrom(tag, 0) = -1 THEN 0 ELSE SlotFrom(tag, 0)

FindTextureSlot(tag) == SlotFrom(tag, 0)

\* FindTextureID(tag): the while loop from index on
RECURSIVE IDFrom(_, _)
IDFrom(tag, index) ==
  IF index < m_loadedTextures
  THEN IF m_textureIDs[index].tag = tag
       THEN m_textureIDs[index].ID
       ELSE IDFrom(tag, index + 1)
  ELSE -1

FindTextureID(tag) == IDFrom(tag, 0)

-----------------------------------------------------------------------------
(* The material table *)

\* the five fields FindMaterial copies
MaterialValues(m) ==
  [ambientColor |-> m.ambientColor, ambientStrength |-> m.ambientStrength,
   diffuseColor |-> m.diffuseColor, specularColor |-> m.specularColor,
   shininess |-> m.shininess]

\* FindMaterial's while loop from index on: the output material
RECURSIVE MaterialFrom(_, _, _)
MaterialFrom(tag, material, index) ==
  IF index <= Len(m_objectMaterials)
  THEN IF m_objectMaterials[index].tag = tag
       THEN MaterialValues(m_objectMaterials[index])
       ELSE MaterialFrom(tag, material, index + 1)
  ELSE material

\* FindMaterial(tag, material): [ret, material], the returned value and the
\* output parameter as the call leaves it
FindMaterial(tag, material) ==
  IF Len(m_objectMaterials) = 0
  THEN [ret |-> FALSE, material |-> material]
  ELSE [ret |-> TRUE, material |-> MaterialFrom(tag, material, 1)]

\* LoadSceneMaterials: five push_back calls
LoadSceneMaterials(materials) == materials \o SceneMaterials

-----------------------------------------------------------------------------
(* The transform/uniform bridge *)

\* The value every uniform has before it is first set (GLSL: zero).
UniformDefaults ==
  [name \in {"model", "objectColor", "objectTexture", "bUseTexture", "UVscale",
             "material.ambientColor", "material.ambientStrength",
             "material.diffuseColor", "material.specularColor",
             "material.shininess",
             "dirLight.direction", "dirLight.ambient", "dirLight.diffuse",
             "spotLight.position", "spotLight.direction", "spotLight.ambient",
             "spotLight.diffuse", "spotLight.specular", "spotLight.constant",
             "spotLight.linear", "spotLight.quadratic", "spotLight.cutOff",
             "spotLight.outerCutOff"} |->
     CASE name = "model" -> Zero4
       [] name = "objectColor" -> <<0, 0, 0, 0>>
       [] name = "UVscale" -> <<0, 0>>
       [] name \in {"material.ambientColor", "material.diffuseColor",
                    "material.specularColor", "dirLight.direction",
                    "dirLight.ambient", "dirLight.diffuse", "spotLight.position",
                    "spotLight.direction", "spotLight.ambient",
                    "spotLight.diffuse", "spotLight.specular"} -> <<0, 0, 0>>
       [] OTHER -> 0]

\* no SetTransformations call yet
NoTransform ==
  [scaleXYZ |-> <<0, 0, 0>>, XrotationDegrees |-> 0, YrotationDegrees |-> 0,
   ZrotationDegrees |-> 0, positionXYZ |-> <<0, 0, 0>>]

\* What the helpers work on: the shader collaborator (sh: the uniforms u and
\* the setter calls), the draw calls issued (drawn), the arguments of the
\* last SetTransformations call (xform) and the fault flag.
Context ==
  [sh |-> shader, drawn |-> m_basicMeshes.drawn, xform |-> m_basicMeshes.xform,
   fault |-> fault]

\* m_pShaderManager->setXxxValue(name, value), with no null check before it
Set(c, name, value, ub) ==
  IF c.fault # "none" THEN c
  ELSE IF m_pShaderManager = NULL /\ ub.null = "segv"
       THEN [c EXCEPT !.fault = "segv"]
       ELSE [c EXCEPT !.sh.u[name] = value, !.sh.calls = Append(@, name)]

\* bool passed to setIntValue(std::string, int)
BoolToInt(b) == IF b THEN 1 ELSE 0

\* modelView = scale * rotationZ * rotationY * rotationX * translation
ModelView_ScaleFirst(scaleXYZ, XrotationDegrees, YrotationDegrees, ZrotationDegrees, positionXYZ) ==
  Mat4Mul(Mat4Mul(Mat4Mul(Mat4Mul(GlmScale(scaleXYZ),
                                  GlmRotateZ(ZrotationDegrees)),
                          GlmRotateY(YrotationDegrees)),
                  GlmRotateX(XrotationDegrees)),
          GlmTranslate(positionXYZ))

\* modelView = translation * rotationX * rotationY * rotationZ * scale
ModelView(scaleXYZ, XrotationDegrees, YrotationDegrees, ZrotationDegrees, positionXYZ) ==
  LET scale == GlmScale(scaleXYZ)
      rotationX == GlmRotateX(XrotationDegrees)
      rotationY == GlmRotateY(YrotationDegrees)
      rotationZ == GlmRotateZ(ZrotationDegrees)
      translation == GlmTranslate(positionXYZ)
  IN  Mat4Mul(Mat4Mul(Mat4Mul(Mat4Mul(translation, rotationX), rotationY),
                      rotationZ), scale)

SetTransformations(c, scaleXYZ, XrotationDegrees, YrotationDegrees, ZrotationDegrees, positionXYZ, ub) ==
  LET modelView == ModelView(scaleXYZ, XrotationDegrees, YrotationDegrees,
                             ZrotationDegrees, positionXYZ)
      c1 == [c EXCEPT !.xform =
               [scaleXYZ |-> scaleXYZ, XrotationDegrees |-> XrotationDegrees,
                YrotationDegrees |-> YrotationDegrees,
                ZrotationDegrees |-> ZrotationDegrees,
                positionXYZ |-> positionXYZ]]
  IN  IF c.fault # "none" THEN c
      ELSE IF NULL # m_pShaderManager
           THEN Set(c1, g_ModelName, modelView, ub)
           ELSE c1

\* SetShaderColor without the bUseTexture reset
SetShaderColor_KeepTexture(c, redColorValue, greenColorValue, blueColorValue, alphaValue, ub) ==
  IF NULL # m_pShaderManager
  THEN Set(c, g_ColorValueName,
           <<redColorValue, greenColorValue, blueColorValue, alphaValue>>, ub)
  ELSE c

SetShaderColor(c, redColorValue, greenColorValue, blueColorValue, alphaValue, ub) ==
  LET currentColor ==
        <<redColorValue, greenColorValue, blueColorValue, alphaValue>>
  IN  IF NULL # m_pShaderManager
      THEN Set(Set(c, g_UseTextureName, BoolToInt(FALSE), ub),
               g_ColorValueName, currentColor, ub)
      ELSE c

SetShaderTexture(c, textureTag, ub) ==
  IF NULL # m_pShaderManager
  THEN LET textureID == FindTextureSlot(textureTag)
       IN  Set(Set(c, g_UseTextureName, BoolToInt(TRUE), ub),
               g_TextureValueName, textureID, ub)
  ELSE c

SetTextureUVScale(c, u, v, ub) ==
  IF NULL # m_pShaderManager THEN Set(c, "UVscale", <<u, v>>, ub) ELSE c

\* the local OBJECT_MATERIAL of SetShaderMaterial is not initialised
SetShaderMaterial(c, materialTag, ub) ==
  IF Len(m_objectMaterials) > 0
  THEN LET found == FindMaterial(materialTag, ub.uninit)
           material == found.material
       IN  IF found.ret = TRUE
           THEN Set(Set(Set(Set(Set(c,
                  "material.ambientColor", material.ambientColor, ub),
                  "material.ambientStrength", material.ambientStrength, ub),
                  "material.diffuseColor", material.diffuseColor, ub),
                  "material.specularColor", material.specularColor, ub),
                  "material.shininess", material.shininess, ub)
           ELSE c
  ELSE c

\* the thirteen values SetupSceneLights sets, in units of 1/10000
SceneLights ==
  << <<"dirLight.direction", <<-5000, -8000, 8000>> >>,
     <<"dirLight.ambient", <<3000, 3000, 3000>> >>,
     <<"dirLight.diffuse", <<7000, 7000, 7000>> >>,
     <<"spotLight.position", <<55000, 40000, 5000>> >>,
     <<"spotLight.direction", <<-8000, -10000, -2000>> >>,
     <<"spotLight.ambient", <<1000, 1000, 1000>> >>,
     <<"spotLight.diffuse", <<10000, 9500, 8000>> >>,
     <<"spotLight.specular", <<10000, 10000, 10000>> >>,
     <<"spotLight.constant", 10000>>,
     <<"spotLight.linear", 450>>,
     <<"spotLight.quadratic", 75>>,
     <<"spotLight.cutOff", 9659>>,
     <<"spotLight.outerCutOff", 9063>> >>

RECURSIVE LightsFrom(_, _, _)
LightsFrom(c, k, ub) ==
  IF k > Len(SceneLights) THEN c
  ELSE LightsFrom(Set(c, SceneLights[k][1], SceneLights[k][2], ub), k + 1, ub)

SetupSceneLights(c, ub) ==
  IF m_pShaderManager # NULL THEN LightsFrom(c, 1, ub) ELSE c

\* m_basicMeshes->DrawXxxMesh(): the draw call, with the uniforms it is
\* rendered under
Draw(c, mesh) ==
  IF c.fault # "none" THEN c
  ELSE [c EXCEPT !.drawn =
          Append(@, [mesh |-> mesh,
                     bUseTexture |-> c.sh.u["bUseTexture"],
                     objectTexture |-> c.sh.u["objectTexture"],
                     xform |-> c.xform,
                     uploads |-> Len(c.sh.calls)])]

-----------------------------------------------------------------------------
(* The scene script: the statements of RenderScene before the leaf loop *)

Xf(scaleXYZ, x, y, z, positionXYZ) ==
  [op |-> "SetTransformations", scaleXYZ |-> scaleXYZ, x |-> x, y |-> y, z |-> z,
   positionXYZ |-> positionXYZ]

Tex(tag) == [op |-> "SetShaderTexture", tag |-> tag]

Mat(tag) == [op |-> "SetShaderMaterial", tag |-> tag]

Col(r, g, b, a) == [op |-> "SetShaderColor", r |-> r, g |-> g, b |-> b, a |-> a]

UseTex(b) == [op |-> "setIntValue", name |-> "bUseTexture", value |-> b]

DrawMesh(mesh) == [op |-> "Draw", mesh |-> mesh]

SceneStatements ==
  << [op |-> "SetupSceneLights"],
     \* the back wall
     Xf(<<40000, 1000, 40000>>, -90, 0, 0, <<0, 4000, -10000>>),
     Tex("wall"),
     UseTex(TRUE),
     [op |-> "SetTextureUVScale", u |-> 1000, v |-> 1000],
     Mat("wall"),
     DrawMesh("plane"),
     \* desk surface
     Xf(<<20000, 1000, 20000>>, 0, 0, 0, <<0, -500, 0>>),
     Mat("wall"),
     Col(1000, 1000, 1000, 1000),
     DrawMesh("plane"),
     \* lamp base
     Xf(<<1500, 200, 1500>>, 0, 0, 0, <<5000, 0, 0>>),
     Mat("granite"),
     Col(850, 850, 850, 1000),
     DrawMesh("cylinder"),
     \* lamp neck
     Xf(<<50, 4000, 50>>, 0, 0, 0, <<6000, 0, 0>>),
     Mat("lamp"),
     DrawMesh("cylinder"),
     \* lamp shade
     Xf(<<1200, 1500, 1200>>, -45, 0, 0, <<5500, 3800, 0>>),
     Mat("lamp"),
     DrawMesh("taperedCylinder"),
     \* lamp bulb
     Xf(<<200, 200, 200>>, 0, 0, 0, <<5500, 3600, 0>>),
     Col(1000, 1000, 0, 1000),
     UseTex(FALSE),
     DrawMesh("sphere"),
     \* lamp joint
     Xf(<<150, 300, 150>>, 0, 0, 90, <<6000, 4000, -200>>),
     Mat("gold"),
     DrawMesh("cylinder"),
     \* clock
     Xf(<<1600, 50, 1600>>, 90, 0, 0, <<-2000, 7000, -4950>>),
     Mat("marble"),
     UseTex(FALSE),
     Col(200, 200, 200, 1000),
     DrawMesh("cylinder"),
     \* clock face
     Xf(<<1500, 100, 1500>>, 90, 0, 0, <<-2000, 7000, -4900>>),
     Tex("wood"),
     UseTex(TRUE),
     DrawMesh("cylinder"),
     \* pot
     Xf(<<1200, 1000, 1200>>, 0, 0, 0, <<2000, 500, 0>>),
     Mat("granite"),
     Col(800, 800, 800, 1000),
     DrawMesh("sphere"),
     \* leaves, before the loop
     UseTex(TRUE),
     Tex("leaf") >>

\* the statements without the lamp neck's SetTransformations (statement 16)
RenderScript_NoNeckTransform ==
  SubSeq(SceneStatements, 1, 15) \o SubSeq(SceneStatements, 17, Len(SceneStatements))

\* the statements RenderScene executes before the leaf loop
RenderScript == SceneStatements

\* one statement of the script
Exec(c, s, ub) ==
  CASE s.op = "SetupSceneLights" -> SetupSceneLights(c, ub)
    [] s.op = "SetTransformations" ->
         SetTransformations(c, s.scaleXYZ, s.x, s.y, s.z, s.positionXYZ, ub)
    [] s.op = "SetShaderTexture" -> SetShaderTexture(c, s.tag, ub)
    [] s.op = "SetShaderMaterial" -> SetShaderMaterial(c, s.tag, ub)
    [] s.op = "SetShaderColor" -> SetShaderColor(c, s.r, s.g, s.b, s.a, ub)
    [] s.op = "SetTextureUVScale" -> SetTextureUVScale(c, s.u, s.v, ub)
    [] s.op = "setIntValue" -> Set(c, s.name, BoolToInt(s.value), ub)
    [] s.op = "Draw" -> Draw(c, s.mesh)

\* the leaf transform with the tilt and the turn exchanged
LeafTransform_SwappedTilt(i) ==
  Xf(<<120, 1500 + ((i % 3) * 200), 400>>, (i * 360) \div leafCount, 20 + (i * 3),
     IF i % 2 = 0 THEN 5 ELSE -5, <<2000, 1300, 0>>)

\* the arguments of SetTransformations in pass i of the leaf loop
LeafTransform(i) ==
  LET randomHeight == 1500 + ((i % 3) * 200)
      yRotation == (i * 360) \div leafCount
      xTilt == 20 + (i * 3)
      zLean == IF i % 2 = 0 THEN 5 ELSE -5
  IN  Xf(<<120, randomHeight, 400>>, xTilt, yRotation, zLean, <<2000, 1300, 0>>)

\* positions in RenderScene after the script: the loop test and the draw
LoopHead == Len(RenderScript) + 1

LoopDraw == Len(RenderScript) + 2

-----------------------------------------------------------------------------
(* Construction *)

\* SceneManager(pShaderManager), the members as the constructor leaves them,
\* and the collaborators as they are before the first call
Construct(pShaderManager) ==
  /\ m_pShaderManager = pShaderManager
  /\ m_loadedTextures = 0
  /\ m_textureIDs = [i \in 0..(TexCapacity - 1) |-> NoTexture]
  /\ m_objectMaterials = << >>
  /\ m_basicMeshes = [loaded |-> {}, drawn |-> << >>, xform |-> NoTransform]
  /\ shader = [u |-> UniformDefaults, calls |-> << >>]
  /\ gl = [nextName |-> 1, active |-> 0,
           bound |-> [i \in 0..(TexCapacity - 1) |-> 0]]
  /\ fault = "none"
  /\ pc = 0
  /\ leaf = 0
  /\ call = [op |-> "SceneManager"]
  /\ loads = [tex |-> 0, mat |-> 0, direct |-> 0]

\* the disks on which only the files in `files` may be anything, the others
\* being what `other` says
Disks(files, other) ==
  {[f \in ImageFiles |-> IF f \in files THEN k[f] ELSE other] :
     k \in [files -> ImageKinds]}

Idle == pc = 0 /\ fault = "none"

\* the registry r written back to the members
StoreRegistry(r) ==
  /\ m_loadedTextures' = r.n
  /\ m_textureIDs' = r.ids
  /\ gl' = r.gl
  /\ fault' = r.fault

\* the context c written back to the collaborators
StoreContext(c) ==
  /\ shader' = c.sh
  /\ m_basicMeshes' = [m_basicMeshes EXCEPT !.drawn = c.drawn, !.xform = c.xform]
  /\ fault' = c.fault

\* the collaborators' call lists emptied at the start of a top-level call
Fresh ==
  [sh |-> [shader EXCEPT !.calls = << >>], drawn |-> << >>,
   xform |-> m_basicMeshes.xform, fault |-> fault]

-----------------------------------------------------------------------------
(* The public operations *)

\* LoadSceneTextures()
DoLoadSceneTextures ==
  /\ Idle
  /\ loads.tex < MaxTextureLoads
  /\ \E ub \in UBOutcomes(Len(SceneTextures)) :
       StoreRegistry(LoadSceneTextures(Registry, ub))
  /\ loads' = [loads EXCEPT !.tex = @ + 1]
  /\ call' = [op |-> "LoadSceneTextures"]
  /\ UNCHANGED <<m_pShaderManager, m_objectMaterials, m_basicMeshes, shader,
                 imageFiles, pc, leaf>>

\* LoadSceneMaterials()
DoLoadSceneMaterials ==
  /\ Idle
  /\ loads.mat < MaxMaterialLoads
  /\ m_objectMaterials' = LoadSceneMaterials(m_objectMaterials)
  /\ loads' = [loads EXCEPT !.mat = @ + 1]
  /\ call' = [op |-> "LoadSceneMaterials"]
  /\ UNCHANGED <<m_pShaderManager, m_loadedTextures, m_textureIDs, m_basicMeshes,
                 shader, imageFiles, gl, fault, pc, leaf>>

\* PrepareScene(): textures, materials, then the nine meshes
DoPrepareScene ==
  /\ Idle
  /\ loads.tex < MaxTextureLoads
  /\ loads.mat < MaxMaterialLoads
  /\ \E ub \in UBOutcomes(Len(SceneTextures)) :
       LET r == LoadSceneTextures(Registry, ub)
       IN  /\ StoreRegistry(r)
           /\ m_objectMaterials' =
                IF r.fault = "none" THEN LoadSceneMaterials(m_objectMaterials)
                ELSE m_objectMaterials
           /\ m_basicMeshes' =
                IF r.fault = "none" THEN [m_basicMeshes EXCEPT !.loaded = AllMeshes]
                ELSE m_basicMeshes
  /\ loads' = [loads EXCEPT !.tex = @ + 1, !.mat = @ + 1]
  /\ call' = [op |-> "PrepareScene"]
  /\ UNCHANGED <<m_pShaderManager, shader, imageFiles, pc, leaf>>

\* RenderScene() is entered
RenderSceneBegin ==
  /\ Idle
  /\ pc' = 1
  /\ leaf' = 0
  /\ shader' = [shader EXCEPT !.calls = << >>]
  /\ m_basicMeshes' = [m_basicMeshes EXCEPT !.drawn = << >>]
  /\ call' = [op |-> "RenderScene", returned |-> FALSE]
  /\ UNCHANGED <<m_pShaderManager, m_loadedTextures, m_textureIDs,
                 m_objectMaterials, imageFiles, gl, fault, loads>>

\* the next statement of RenderScene before the leaf loop
RenderStatement ==
  /\ fault = "none"
  /\ pc \in 1..Len(RenderScript)
  /\ \E ub \in UBOutcomes(0) : StoreContext(Exec(Context, RenderScript[pc], ub))
  /\ pc' = pc + 1
  /\ UNCHANGED <<m_pShaderManager, m_loadedTextures, m_textureIDs,
                 m_objectMaterials, imageFiles, gl, leaf, call, loads>>

\* for (i < leafCount): the body up to SetTransformations
LeafLoopBody ==
  /\ fault = "none"
  /\ pc = LoopHead
  /\ leaf < leafCount
  /\ \E ub \in UBOutcomes(0) : StoreContext(Exec(Context, LeafTransform(leaf), ub))
  /\ pc' = LoopDraw
  /\ UNCHANGED <<m_pShaderManager, m_loadedTextures, m_textureIDs,
                 m_objectMaterials, imageFiles, gl, leaf, call, loads>>

\* DrawTaperedCylinderMesh() and i++
LeafLoopDraw ==
  /\ fault = "none"
  /\ pc = LoopDraw
  /\ StoreContext(Draw(Context, "taperedCylinder"))
  /\ leaf' = leaf + 1
  /\ pc' = LoopHead
  /\ UNCHANGED <<m_pShaderManager, m_loadedTextures, m_textureIDs,
                 m_objectMaterials, imageFiles, gl, call, loads>>

\* the loop ends and RenderScene returns
RenderSceneReturn ==
  /\ fault = "none"
  /\ pc = LoopHead
  /\ ~(leaf < leafCount)
  /\ pc' = 0
  /\ call' = [op |-> "RenderScene", returned |-> TRUE]
  /\ UNCHANGED <<m_pShaderManager, m_loadedTextures, m_textureIDs,
                 m_objectMaterials, m_basicMeshes, shader, imageFiles, gl, fault,
                 leaf, loads>>

-----------------------------------------------------------------------------
(* The helpers, called on their own *)

DoCreateGLTexture(filename, tag) ==
  /\ Idle
  /\ loads.direct < MaxDirectCalls
  /\ \E ub \in UBOutcomes(1) :
       LET r == CreateGLTexture(Registry, filename, tag, ub)
       IN  /\ StoreRegistry(r)
           /\ call' = [op |-> "CreateGLTexture", filename |-> filename,
                       tag |-> tag, ret |-> r.ret]
  /\ loads' = [loads EXCEPT !.direct = @ + 1]
  /\ UNCHANGED <<m_pShaderManager, m_objectMaterials, m_basicMeshes, shader,
                 imageFiles, pc, leaf>>

DoFindTextureID(tag) ==
  /\ Idle
  /\ call' = [op |-> "FindTextureID", tag |-> tag, ret |-> FindTextureID(tag)]
  /\ UNCHANGED <<m_pShaderManager, m_loadedTextures, m_textureIDs,
                 m_objectMaterials, m_basicMeshes, shader, imageFiles, gl, fault,
                 pc, leaf, loads>>

DoFindTextureSlot(tag) ==
  /\ Idle
  /\ call' = [op |-> "FindTextureSlot", tag |-> tag, ret |-> FindTextureSlot(tag)]
  /\ UNCHANGED <<m_pShaderManager, m_loadedTextures, m_textureIDs,
                 m_objectMaterials, m_basicMeshes, shader, imageFiles, gl, fault,
                 pc, leaf, loads>>

\* FindMaterial(tag, material), material holding `given` before the call
DoFindMaterial(tag) ==
  /\ Idle
  /\ \E ub \in UBOutcomes(0) :
       LET found == FindMaterial(tag, ub.uninit)
       IN  call' = [op |-> "FindMaterial", tag |-> tag, given |-> ub.uninit,
                    ret |-> found.ret, material |-> found.material]
  /\ UNCHANGED <<m_pShaderManager, m_loadedTextures, m_textureIDs,
                 m_objectMaterials, m_basicMeshes, shader, imageFiles, gl, fault,
                 pc, leaf, loads>>

DoSetTransformations(scaleXYZ, x, y, z, positionXYZ) ==
  /\ Idle
  /\ \E ub \in UBOutcomes(0) :
       StoreContext(SetTransformations(Fresh, scaleXYZ, x, y, z, positionXYZ, ub))
  /\ call' = [op |-> "SetTransformations"]
  /\ UNCHANGED <<m_pShaderManager, m_loadedTextures, m_textureIDs,
                 m_objectMaterials, imageFiles, gl, pc, leaf, loads>>

\* SetShaderColor(...) called on its own
DoSetShaderColor(redColorValue, greenColorValue, blueColorValue, alphaValue) ==
  /\ Idle
  /\ \E ub \in UBOutcomes(0) :
       StoreContext(SetShaderColor(Fresh, redColorValue, greenColorValue,
                                   blueColorValue, alphaValue, ub))
  /\ call' = [op |-> "SetShaderColor"]
  /\ UNCHANGED <<m_pShaderManager, m_loadedTextures, m_textureIDs,
                 m_objectMaterials, imageFiles, gl, pc, leaf, loads>>

\* SetShaderTexture(textureTag) called on its own
DoSetShaderTexture(textureTag) ==
  /\ Idle
  /\ \E ub \in UBOutcomes(0) : StoreContext(SetShaderTexture(Fresh, textureTag, ub))
  /\ call' = [op |-> "SetShaderTexture"]
  /\ UNCHANGED <<m_pShaderManager, m_loadedTextures, m_textureIDs,
                 m_objectMaterials, imageFiles, gl, pc, leaf, loads>>

\* SetTextureUVScale(u, v) called on its own
DoSetTextureUVScale(u, v) ==
  /\ Idle
  /\ \E ub \in UBOutcomes(0) : StoreContext(SetTextureUVScale(Fresh, u, v, ub))
  /\ call' = [op |-> "SetTextureUVScale"]
  /\ UNCHANGED <<m_pShaderManager, m_loadedTextures, m_textureIDs,
                 m_objectMaterials, imageFiles, gl, pc, leaf, loads>>

\* SetShaderMaterial(materialTag) called on its own
DoSetShaderMaterial(materialTag) ==
  /\ Idle
  /\ \E ub \in UBOutcomes(0) : StoreContext(SetShaderMaterial(Fresh, materialTag, ub))
  /\ call' = [op |-> "SetShaderMaterial"]
  /\ UNCHANGED <<m_pShaderManager, m_loadedTextures, m_textureIDs,
                 m_objectMaterials, imageFiles, gl, pc, leaf, loads>>

\* SetupSceneLights() called on its own
DoSetupSceneLights ==
  /\ Idle
  /\ \E ub \in UBOutcomes(0) : StoreContext(SetupSceneLights(Fresh, ub))
  /\ call' = [op |-> "SetupSceneLights"]
  /\ UNCHANGED <<m_pShaderManager, m_loadedTextures, m_textureIDs,
                 m_objectMaterials, imageFiles, gl, pc, leaf, loads>>

-----------------------------------------------------------------------------
(* Specifications *)

\* the files and tags of the direct CreateGLTexture calls
UnitFiles == {"textures/wood.jpg", "textures/wall.jpg"}

UnitTags == {"wood", "wall"}

\* the tags looked up: texture tags, material tags and one that is neither
QueryTags == {"wood", "wall", "marble", "plastic"}

\* the files whose textures RenderScene asks for
RenderFiles == {"textures/wall.jpg", "textures/wood.jpg", "textures/leaf.jpg"}

\* the inputs of the direct SetTransformations calls
TransformScales == {<<1000, 2000, 3000>>, <<3000, 1000, 2000>>}

TransformAngles == {0, 90, 180, -90}

TransformPositions == {<<0, 0, 0>>, <<1000, -2000, 3000>>}

\* The helpers of the registry and the material table
Init == Construct(SHADER) /\ imageFiles \in Disks(UnitFiles, 0)

Next ==
  \/ \E f \in UnitFiles, t \in UnitTags : DoCreateGLTexture(f, t)
  \/ DoLoadSceneMaterials
  \/ \E t \in QueryTags : DoFindTextureID(t)
  \/ \E t \in QueryTags : DoFindTextureSlot(t)
  \/ \E t \in QueryTags : DoFindMaterial(t)

Spec == Init /\ [][Next]_vars

\* The public operations: preparing and rendering the scene
SceneInit == Construct(SHADER) /\ imageFiles \in Disks(RenderFiles, 3)

SceneNext ==
  \/ DoPrepareScene
  \/ DoLoadSceneTextures
  \/ DoLoadSceneMaterials
  \/ RenderSceneBegin
  \/ RenderStatement
  \/ LeafLoopBody
  \/ LeafLoopDraw
  \/ RenderSceneReturn
  \/ \E t \in QueryTags : DoFindTextureID(t)
  \/ \E t \in QueryTags : DoFindTextureSlot(t)

SceneSpec == SceneInit /\ [][SceneNext]_vars

\* SetTransformations on its own
TransformInit == Construct(SHADER) /\ imageFiles \in Disks({}, 3)

TransformNext ==
  \E s \in TransformScales, x \in TransformAngles, y \in TransformAngles,
     z \in TransformAngles, p \in TransformPositions :
       DoSetTransformations(s, x, y, z, p)

TransformSpec == TransformInit /\ [][TransformNext]_vars

\* what the files of LoadSceneTextures may be: a NULL image, an image of one
\* channel, an image of three
LoadKinds == {0, 1, 3}

\* Loading the textures, every one of the eight files being of any kind
LoadInit == Construct(SHADER) /\ imageFiles \in [ImageFiles -> LoadKinds]

LoadNext ==
  \/ DoLoadSceneTextures
  \/ DoPrepareScene

LoadSpec == LoadInit /\ [][LoadNext]_vars

\* the arguments of the direct calls of the uniform-setting helpers
HelperColors == {<<1000, 1000, 1000, 1000>>, <<200, 200, 200, 1000>>}

HelperUVs == {<<1000, 1000>>, <<2000, 500>>}

HelperTags == {"wall", "plastic"}

\* The uniform-setting helpers, on a scene manager constructed with or
\* without a shader manager
HelperInit ==
  /\ \E pShaderManager \in {NULL, SHADER} : Construct(pShaderManager)
  /\ imageFiles \in Disks({}, 3)

HelperNext ==
  \/ DoLoadSceneMaterials
  \/ \E sc \in TransformScales, p \in TransformPositions :
       DoSetTransformations(sc, 0, 90, 0, p)
  \/ \E c \in HelperColors : DoSetShaderColor(c[1], c[2], c[3], c[4])
  \/ \E t \in HelperTags : DoSetShaderTexture(t)
  \/ \E uv \in HelperUVs : DoSetTextureUVScale(uv[1], uv[2])
  \/ \E t \in HelperTags : DoSetShaderMaterial(t)
  \/ DoSetupSceneLights

HelperSpec == HelperInit /\ [][HelperNext]_vars

-----------------------------------------------------------------------------
(* Properties *)

\* some registered texture entry carries the tag
Registered(tag) ==
  \E i \in 0..(m_loadedTextures - 1) : i < TexCapacity /\ m_textureIDs[i].tag = tag

\* i is the smallest index of a registered entry carrying the tag
FirstTexture(tag, i) ==
  /\ i \in 0..(m_loadedTextures - 1)
  /\ m_textureIDs[i].tag = tag
  /\ \A j \in 0..(i - 1) : m_textureIDs[j].tag # tag

\* some preset carries the tag
HasMaterial(tag) ==
  \E i \in 1..Len(m_objectMaterials) : m_objectMaterials[i].tag = tag

\* i is the position of the first preset carrying the tag
FirstMaterial(tag, i) ==
  /\ i \in 1..Len(m_objectMaterials)
  /\ m_objectMaterials[i].tag = tag
  /\ \A j \in 1..(i - 1) : m_objectMaterials[j].tag # tag

\* C1: a lookup by a tag that is held returns the data of the first entry
\* holding it: FindTextureSlot the smallest index with the tag, FindTextureID
\* the handle stored there, FindMaterial true and the five values of the
\* first preset with the tag in the output material.
C1_LookupKnownTag ==
  /\ (call.op = "FindTextureSlot" /\ Registered(call.tag))
       => FirstTexture(call.tag, call.ret)
  /\ (call.op = "FindTextureID" /\ Registered(call.tag))
       => \E i \in 0..(m_loadedTextures - 1) :
            FirstTexture(call.tag, i) /\ call.ret = m_textureIDs[i].ID
  /\ (call.op = "FindMaterial" /\ HasMaterial(call.tag))
       => /\ call.ret = TRUE
          /\ \E i \in 1..Len(m_objectMaterials) :
               /\ FirstMaterial(call.tag, i)
               /\ call.material.ambientColor = m_objectMaterials[i].ambientColor
               /\ call.material.ambientStrength = m_objectMaterials[i].ambientStrength
               /\ call.material.diffuseColor = m_objectMaterials[i].diffuseColor
               /\ call.material.specularColor = m_objectMaterials[i].specularColor
               /\ call.material.shininess = m_objectMaterials[i].shininess

\* C1 witness: FindTextureSlot has returned 1 for a tag that entries 1 and 2
\* both carry and entry 0 does not
C1_Witness ==
  /\ call.op = "FindTextureSlot"
  /\ m_loadedTextures = 3
  /\ m_textureIDs[1].tag = call.tag
  /\ m_textureIDs[2].tag = call.tag
  /\ m_textureIDs[0].tag # call.tag
  /\ call.ret = 1

\* C2: FindMaterial called with a tag no preset carries returns false,
\* whether the table is empty or not.
C2_UnknownMaterialNotFound ==
  (call.op = "FindMaterial" /\ ~HasMaterial(call.tag)) => call.ret = FALSE

\* a step that is one CreateGLTexture call
CreateGLTextureStep == loads'.direct = loads.direct + 1

\* C7: a CreateGLTexture call returns false exactly when the image is NULL
\* or has a channel count other than 3 or 4, and then the count and every
\* texture entry are as before the call; the registry changes only in a call
\* that returns true, and then by one entry, written at the old count, with
\* the count raised by one.
C7_FailedLoadRegistersNothing ==
  [][CreateGLTextureStep =>
       /\ (call'.ret = FALSE) <=> (imageFiles[call'.filename] \notin {3, 4})
       /\ (call'.ret = FALSE) =>
            /\ m_loadedTextures' = m_loadedTextures
            /\ m_textureIDs' = m_textureIDs
       /\ (m_loadedTextures' # m_loadedTextures \/ m_textureIDs' # m_textureIDs) =>
            /\ call'.ret = TRUE
            /\ m_loadedTextures' = m_loadedTextures + 1
            /\ \A i \in DOMAIN m_textureIDs :
                 i # m_loadedTextures => m_textureIDs'[i] = m_textureIDs[i]
            /\ m_textureIDs'[m_loadedTextures].tag = call'.tag]_vars

\* C7 witness: a call has returned false on an image with one channel while
\* two entries were registered
C7_Witness ==
  /\ call.op = "CreateGLTexture"
  /\ call.ret = FALSE
  /\ imageFiles[call.filename] = 1
  /\ m_loadedTextures = 2

-----------------------------------------------------------------------------
(* Properties of rendering *)

\* RenderScene is running or has returned, and nothing was called since
InFrame == call.op = "RenderScene"

FrameDone == call.op = "RenderScene" /\ call.returned = TRUE

\* the draw calls of one frame that follow a SetShaderTexture, with its tag
TextureTagOfDraw(k) ==
  IF k = 1 THEN "wall" ELSE IF k = 9 THEN "wood" ELSE "leaf"

TexturedDraws == {1, 9} \cup (11..20)

\* the position in shader.calls of the last setter call before draw k - 1
\* returned, 0 for the first draw
UploadsBefore(k) == IF k = 1 THEN 0 ELSE m_basicMeshes.drawn[k - 1].uploads

\* how often the setter for `name` was called at positions from + 1 .. to
Count(name, from, to) ==
  Cardinality({j \in (from + 1)..to : shader.calls[j] = name})

\* C3: for a tag no registered entry carries, FindTextureID and
\* FindTextureSlot return -1; SetShaderTexture with such a tag sets
\* bUseTexture to true (1) and objectTexture to -1, the draw call that follows
\* is issued under these values, and the frame runs to its twentieth draw.
C3_UnknownTextureTag ==
  /\ (call.op \in {"FindTextureID", "FindTextureSlot"} /\ ~Registered(call.tag))
       => call.ret = -1
  /\ (/\ InFrame
      /\ pc \in 2..LoopHead
      /\ leaf = 0
      /\ RenderScript[pc - 1].op = "SetShaderTexture"
      /\ ~Registered(RenderScript[pc - 1].tag))
       => /\ fault = "none"
          /\ shader.u["bUseTexture"] = 1
          /\ shader.u["objectTexture"] = -1
          /\ Len(shader.calls) >= 2
          /\ SubSeq(shader.calls, Len(shader.calls) - 1, Len(shader.calls))
               = <<"bUseTexture", "objectTexture">>
  /\ InFrame =>
       \A k \in 1..Len(m_basicMeshes.drawn) :
         (k \in TexturedDraws /\ ~Registered(TextureTagOfDraw(k)))
           => /\ m_basicMeshes.drawn[k].bUseTexture = 1
              /\ m_basicMeshes.drawn[k].objectTexture = -1
  /\ FrameDone => Len(m_basicMeshes.drawn) = 20

\* C3 witness: the back wall was drawn with bUseTexture 1 and sampler -1,
\* "wall" not being registered, and the desk was drawn after it
C3_Witness ==
  /\ InFrame
  /\ ~Registered("wall")
  /\ Len(m_basicMeshes.drawn) >= 2
  /\ m_basicMeshes.drawn[1].bUseTexture = 1
  /\ m_basicMeshes.drawn[1].objectTexture = -1

\* the meshes of the twenty draw calls of one frame
FrameMeshes ==
  <<"plane", "plane", "cylinder", "cylinder", "taperedCylinder", "sphere",
    "cylinder", "cylinder", "cylinder", "sphere",
    "taperedCylinder", "taperedCylinder", "taperedCylinder", "taperedCylinder",
    "taperedCylinder", "taperedCylinder", "taperedCylinder", "taperedCylinder",
    "taperedCylinder", "taperedCylinder">>

\* where the first ten objects are placed: back wall, desk, lamp base, lamp
\* neck, lamp shade, bulb, lamp joint, clock, clock face, pot
FramePositions ==
  << <<0, 4000, -10000>>, <<0, -500, 0>>, <<5000, 0, 0>>, <<6000, 0, 0>>,
     <<5500, 3800, 0>>, <<5500, 3600, 0>>, <<6000, 4000, -200>>,
     <<-2000, 7000, -4950>>, <<-2000, 7000, -4900>>, <<2000, 500, 0>> >>

\* C4: one RenderScene call issues exactly 20 draw calls, in the order plane,
\* plane, cylinder, cylinder, tapered cylinder, sphere, cylinder, cylinder,
\* cylinder, sphere, then ten tapered cylinders; the first ten are the back
\* wall, desk, lamp base, neck, shade, bulb, joint, clock, clock face and pot
\* (by their positions); leaf i is drawn at one position with Y rotation
\* 36 * i degrees, so the ten rotations are pairwise distinct and 36 apart,
\* ten of them making the full turn.
C4_DrawSequence ==
  LET drawn == m_basicMeshes.drawn
  IN  /\ Len(drawn) <= 20
      /\ \A k \in 1..Len(drawn) :
           /\ drawn[k].mesh = FrameMeshes[k]
           /\ k <= 10 => drawn[k].xform.positionXYZ = FramePositions[k]
           /\ k > 10 =>
                /\ drawn[k].xform.positionXYZ = drawn[11].xform.positionXYZ
                /\ drawn[k].xform.YrotationDegrees = (k - 11) * 36
      /\ \A j, k \in 11..Len(drawn) :
           j # k => drawn[j].xform.YrotationDegrees # drawn[k].xform.YrotationDegrees
      /\ \A k \in 12..Len(drawn) :
           drawn[k].xform.YrotationDegrees - drawn[k - 1].xform.YrotationDegrees
             = 360 \div 10
      /\ FrameDone => Len(drawn) = 20

\* C4 witness: RenderScene has returned after the tenth leaf, drawn at 324
\* degrees
C4_Witness ==
  /\ FrameDone
  /\ Len(m_basicMeshes.drawn) = 20
  /\ m_basicMeshes.drawn[20].xform.YrotationDegrees = 324

\* C5: m_loadedTextures never exceeds 16, and no entry is written at an index
\* outside 0..15 (a write past the array is the only fault of these runs).
C5_CountWithinCapacity == m_loadedTextures <= TexCapacity /\ fault = "none"

\* C6: no two of the first m_loadedTextures entries carry the same tag.
C6_TagsUnique ==
  \A i, j \in 0..(m_loadedTextures - 1) :
    (i < TexCapacity /\ j < TexCapacity /\ i # j)
      => m_textureIDs[i].tag # m_textureIDs[j].tag

\* the x, y, z of a quarter turn (90 degrees) of vector v about each axis
Turn90X(v) == <<v[1], 0 - v[3], v[2]>>

Turn90Y(v) == <<v[3], v[2], 0 - v[1]>>

Turn90Z(v) == <<0 - v[2], v[1], v[3]>>

\* v turned by deg degrees, a multiple of 90, about the axis
RECURSIVE TurnX(_, _)
TurnX(v, deg) == IF deg % 360 = 0 THEN v ELSE TurnX(Turn90X(v), deg - 90)

RECURSIVE TurnY(_, _)
TurnY(v, deg) == IF deg % 360 = 0 THEN v ELSE TurnY(Turn90Y(v), deg - 90)

RECURSIVE TurnZ(_, _)
TurnZ(v, deg) == IF deg % 360 = 0 THEN v ELSE TurnZ(Turn90Z(v), deg - 90)

\* where the transform of the last SetTransformations call takes the point v:
\* scaled first, then turned about Z, about Y, about X, then moved
Placed(v) ==
  LET t == m_basicMeshes.xform
      scaled == <<(v[1] * t.scaleXYZ[1]), (v[2] * t.scaleXYZ[2]),
                  (v[3] * t.scaleXYZ[3])>>
      turned == TurnX(TurnY(TurnZ(scaled, t.ZrotationDegrees),
                            t.YrotationDegrees), t.XrotationDegrees)
  IN  <<turned[1] + t.positionXYZ[1], turned[2] + t.positionXYZ[2],
        turned[3] + t.positionXYZ[3]>>

\* the matrix m applied to the point v (w = 1)
Applied(m, v) ==
  <<(m[1][1] * v[1]) + (m[1][2] * v[2]) + (m[1][3] * v[3]) + m[1][4],
    (m[2][1] * v[1]) + (m[2][2] * v[2]) + (m[2][3] * v[3]) + m[2][4],
    (m[3][1] * v[1]) + (m[3][2] * v[2]) + (m[3][3] * v[3]) + m[3][4]>>

\* C8: a SetTransformations call makes exactly one upload, under the name
\* "model", and the matrix uploaded is translate * rotateX * rotateY *
\* rotateZ * scale: it takes every point to where scaling it, turning it
\* about Z, then Y, then X, and moving it by the position takes it.
C8_ModelMatrix ==
  call.op = "SetTransformations" =>
    /\ shader.calls = <<"model">>
    /\ shader.u["model"][4] = <<0, 0, 0, Milli>>
    /\ \A v \in {<<0, 0, 0>>, <<1, 0, 0>>, <<0, 1, 0>>, <<0, 0, 1>>, <<1, 2, 3>>} :
         Applied(shader.u["model"], v) = Placed(v)

\* C8 witness: a call with three different scales, a different turn about
\* every axis and a position off the origin
C8_Witness ==
  /\ call.op = "SetTransformations"
  /\ m_basicMeshes.xform.scaleXYZ = <<1000, 2000, 3000>>
  /\ m_basicMeshes.xform.XrotationDegrees = 90
  /\ m_basicMeshes.xform.YrotationDegrees = -90
  /\ m_basicMeshes.xform.ZrotationDegrees = 180
  /\ m_basicMeshes.xform.positionXYZ = <<1000, -2000, 3000>>

\* C9: within one RenderScene call every light value is set at most once,
\* and exactly once before the first draw call; every draw call is preceded
\* by exactly one upload of "model" made after the draw call before it.
C9_LightsOnceTransformPerDraw ==
  LET drawn == m_basicMeshes.drawn
  IN  InFrame =>
        /\ \A k \in 1..Len(SceneLights) :
             /\ Count(SceneLights[k][1], 0, Len(shader.calls)) <= 1
             /\ Len(drawn) >= 1 =>
                  Count(SceneLights[k][1], 0, drawn[1].uploads) = 1
        /\ \A k \in 1..Len(drawn) :
             Count("model", UploadsBefore(k), drawn[k].uploads) = 1
        /\ FrameDone => Count("model", 0, Len(shader.calls)) = Len(drawn)

\* C9 witness: a frame has ended with twenty draws and twenty uploads of
\* "model"
C9_Witness ==
  /\ FrameDone
  /\ Len(m_basicMeshes.drawn) = 20
  /\ Count("model", 0, Len(shader.calls)) = 20
  /\ Count("dirLight.direction", 0, m_basicMeshes.drawn[1].uploads) = 1

\* C10: when a draw call of RenderScene is issued, bUseTexture is true (1)
\* for the back wall, the clock face and the ten leaves, the sampler being
\* the slot of "wall", "wood" and "leaf", and false (0) for the other eight.
C10_TextureFlagAtDraw ==
  InFrame =>
    \A k \in 1..Len(m_basicMeshes.drawn) :
      IF k \in TexturedDraws
      THEN /\ m_basicMeshes.drawn[k].bUseTexture = 1
           /\ m_basicMeshes.drawn[k].objectTexture
                = FindTextureSlot(TextureTagOfDraw(k))
      ELSE m_basicMeshes.drawn[k].bUseTexture = 0

\* C10 witness: a frame has ended in which the wall, the clock face and the
\* leaves were drawn with the slots 1, 0 and 3, and the desk and the pot
\* without a texture
C10_Witness ==
  /\ FrameDone
  /\ Len(m_basicMeshes.drawn) = 20
  /\ m_basicMeshes.drawn[1].objectTexture = 1
  /\ m_basicMeshes.drawn[9].objectTexture = 0
  /\ m_basicMeshes.drawn[20].objectTexture = 3
  /\ m_basicMeshes.drawn[2].bUseTexture = 0
  /\ m_basicMeshes.drawn[10].bUseTexture = 0

\* the positions in SceneTextures of the files CreateGLTexture can register
Loadable == {k \in 1..Len(SceneTextures) : imageFiles[SceneTextures[k][1]] \in {3, 4}}

\* the tags of the loadable files among the first k of SceneTextures, in the
\* order of the calls
RECURSIVE LoadedTags(_)
LoadedTags(k) ==
  IF k = 0 THEN << >>
  ELSE IF k \in Loadable THEN Append(LoadedTags(k - 1), SceneTextures[k][2])
       ELSE LoadedTags(k - 1)

\* LoadSceneTextures has been called once, on the registry as constructed
LoadedOnce == loads.tex = 1 /\ loads.direct = 0 /\ fault = "none"

\* C11: after one LoadSceneTextures call on an empty registry, whichever of
\* the eight images load, the registered entries are the loadable images'
\* tags in call order at the indices 0 .. m_loadedTextures - 1 without a gap,
\* each with a handle of its own, and for every registered tag t the texture
\* unit FindTextureSlot(t) is bound to the handle FindTextureID(t).
C11_SlotIsBoundUnit ==
  LoadedOnce =>
    /\ m_loadedTextures = Cardinality(Loadable)
    /\ \A i \in 0..(TexCapacity - 1) :
         IF i < m_loadedTextures
         THEN /\ m_textureIDs[i].tag = LoadedTags(Len(SceneTextures))[i + 1]
              /\ m_textureIDs[i].ID > 0
              /\ \A j \in 0..(i - 1) : m_textureIDs[j].ID < m_textureIDs[i].ID
         ELSE m_textureIDs[i] = NoTexture
    /\ \A k \in 1..Len(SceneTextures) :
         LET t == SceneTextures[k][2]
         IN  IF k \in Loadable
             THEN /\ FindTextureSlot(t) \in 0..(m_loadedTextures - 1)
                  /\ m_textureIDs[FindTextureSlot(t)].tag = t
                  /\ FindTextureID(t) = m_textureIDs[FindTextureSlot(t)].ID
                  /\ gl.bound[FindTextureSlot(t)] = FindTextureID(t)
             ELSE FindTextureSlot(t) = -1 /\ FindTextureID(t) = -1

\* C11 witness: one call has been made with wood.jpg of one channel, wall.jpg
\* missing and the six others loading: "pot" is at slot 0 with handle 2,
\* bound at unit 0, and "gold" at slot 5
C11_Witness ==
  /\ LoadedOnce
  /\ imageFiles["textures/wood.jpg"] = 1
  /\ imageFiles["textures/wall.jpg"] = 0
  /\ m_loadedTextures = 6
  /\ FindTextureSlot("pot") = 0
  /\ FindTextureID("pot") = 2
  /\ gl.bound[0] = 2
  /\ FindTextureSlot("gold") = 5
  /\ gl.bound[5] = FindTextureID("gold")

\* the uniform-setting helpers
HelperOps ==
  {"SetTransformations", "SetShaderColor", "SetShaderTexture",
   "SetTextureUVScale", "SetupSceneLights", "SetShaderMaterial"}

\* C12: with m_pShaderManager null, a call of SetTransformations,
\* SetShaderColor, SetShaderTexture, SetTextureUVScale, SetupSceneLights or
\* SetShaderMaterial invokes no shader setter and returns normally, whether
\* the material table is populated or not.
C12_NullShaderNoOp ==
  (m_pShaderManager = NULL /\ call.op \in HelperOps)
    => shader.calls = << >> /\ fault = "none"

=============================================================================
